---- MODULE Spec2Model ----
(***************************************************************************)
(* A model of fix_expression_references.py: the regex rule set that        *)
(* rewrites Expression to Expr (fix_expression_references), the per-file   *)
(* step (process_file) and the driver loop (main).                         *)
(*                                                                         *)
(* Text is a sequence of tokens.  A token is a maximal chunk of the text   *)
(* that the patterns treat as a unit: a run of identifier characters       *)
(* ("Expression", "Sub", "Literal") or a piece of punctuation or white     *)
(* space ("&", "::", "<", " ").  Two adjacent word tokens are one longer   *)
(* identifier in the file ("Sub","Expression" is SubExpression), so \b     *)
(* holds between two tokens exactly when one is a word token and the other *)
(* is not.  No token of the alphabet contains a pattern literal as a       *)
(* proper part, so matching token by token is matching character by        *)
(* character.                                                              *)
(***************************************************************************)
EXTENDS Integers, Sequences, FiniteSets, TLC

\* ------------------------------------------------------------------ text

\* The two regex elements that are not literals.
WS == "\\s*"
WB == "\\b"

\* Tokens made of identifier characters (\w); every other token is not.
WordTokens ==
  {"use", "crate", "pkg", "expression", "core", "types", "Expression", "Expr",
   "Literal", "Variable", "Property", "Binary", "Unary", "Function", "Aggregate",
   "List", "Map", "Case", "TypeCast", "Subscript", "Range", "Path", "Label",
   "Vec", "Box", "Option", "String", "Sub", "Kind", "fn", "f", "x"}

\* Tokens matched by \s.
SpaceTokens == {" ", "\n"}

\* Whether position i of text holds identifier characters; outside the text
\* there are none (\b at the start and the end of the string).
IsWord(text, i) == i >= 1 /\ i <= Len(text) /\ text[i] \in WordTokens

\* re's matcher: the position after the match of pat[k..] that starts at text[i],
\* 0 when there is none.  \s* is greedy; what follows it in every pattern is a
\* literal that is not white space, so giving white space back never helps.
RECURSIVE MatchEnd(_, _, _, _)
MatchEnd(pat, k, text, i) ==
  IF k > Len(pat) THEN i
  ELSE IF pat[k] = WB THEN
         IF IsWord(text, i - 1) # IsWord(text, i)
         THEN MatchEnd(pat, k + 1, text, i)
         ELSE 0
  ELSE IF pat[k] = WS THEN
         IF i <= Len(text) /\ text[i] \in SpaceTokens
         THEN MatchEnd(pat, k, text, i + 1)
         ELSE MatchEnd(pat, k + 1, text, i)
  ELSE IF i <= Len(text) /\ text[i] = pat[k]
         THEN MatchEnd(pat, k + 1, text, i + 1)
  ELSE 0

\* re.sub from position i on: the leftmost match is replaced and the scan goes on
\* after it (matches do not overlap); a position with no match is copied.
RECURSIVE SubFrom(_, _, _, _)
SubFrom(pat, rep, text, i) ==
  IF i > Len(text) THEN <<>>
  ELSE LET e == MatchEnd(pat, 1, text, i)
       IN IF e = 0
          THEN <<text[i]>> \o SubFrom(pat, rep, text, i + 1)
          ELSE rep \o SubFrom(pat, rep, text, e)

\* re.sub with count=1: only the leftmost match is replaced.
RECURSIVE SubFirstFrom(_, _, _, _)
SubFirstFrom(pat, rep, text, i) ==
  IF i > Len(text) THEN <<>>
  ELSE LET e == MatchEnd(pat, 1, text, i)
       IN IF e = 0
          THEN <<text[i]>> \o SubFirstFrom(pat, rep, text, i + 1)
          ELSE rep \o SubSeq(text, e, Len(text))

re_sub_count1(pat, rep, text) == SubFirstFrom(pat, rep, text, 1)

\* re.sub(pattern, replacement, content)
re_sub(pat, rep, text) == SubFrom(pat, rep, text, 1)

\* ------------------------------------------------------------- the rules

\* The enum variants of rule group 3, in the order of the code.
Variants ==
  <<"Literal", "Variable", "Property", "Binary", "Unary", "Function", "Aggregate",
    "List", "Map", "Case", "TypeCast", "Subscript", "Range", "Path", "Label">>

\* r'Expression::<v>\b' -> 'Expr::<v>'
VariantRule(v) == << <<"Expression", "::", v, WB>>, <<"Expr", "::", v>> >>

\* Rule groups 1 and 2: the two imports, and &Expression.
ImportAndReferenceRules ==
  << << <<"use", " ", "crate", "::", "expression", "::", "Expression", WB>>,
        <<"use", " ", "crate", "::", "expression", "::", "Expr">> >>,
     << <<"use", " ", "crate", "::", "core", "::", "types", "::", "expression", "::",
          "Expression", WB>>,
        <<"use", " ", "crate", "::", "core", "::", "types", "::", "expression", "::",
          "Expr">> >>,
     << <<"&", "Expression", WB>>, <<"&", "Expr">> >> >>

\* Rule groups 4 to 9: the container and tuple shapes.
ContainerAndTupleRules ==
  << << <<"Vec", "<", "Expression", ">">>, <<"Vec", "<", "Expr", ">">> >>,
     << <<"Box", "<", "Expression", ">">>, <<"Box", "<", "Expr", ">">> >>,
     << <<"Option", "<", "Box", "<", "Expression", ">", ">">>,
        <<"Option", "<", "Box", "<", "Expr", ">", ">">> >>,
     << <<"(", "Expression", ",", WS, "Expression", ")">>,
        <<"(", "Expr", ",", " ", "Expr", ")">> >>,
     << <<"&", "[", "(", "Expression", ",", WS, "Expression", ")", "]">>,
        <<"&", "[", "(", "Expr", ",", " ", "Expr", ")", "]">> >>,
     << <<"&", "[", "String", ",", WS, "Expression", "]">>,
        <<"&", "[", "(", "String", ",", " ", "Expr", ")", "]">> >> >>

\* The rule list with the Box rule lost to a copy of the Vec rule above it.
RULES_BoxRuleIsVecRule ==
  ImportAndReferenceRules
  \o [n \in 1..Len(Variants) |-> VariantRule(Variants[n])]
  \o [n \in 1..Len(ContainerAndTupleRules) |->
        IF n = 2 THEN ContainerAndTupleRules[1] ELSE ContainerAndTupleRules[n]]

\* The rule list with the &Expression rule left out of it (replaced by a rule
\* that changes nothing, so that the other rules keep their places).
RULES_NoReferenceRule ==
  [n \in 1..Len(ImportAndReferenceRules) |->
     IF n = 3 THEN << <<"&", "Expr", WB>>, <<"&", "Expr">> >>
     ELSE ImportAndReferenceRules[n]]
  \o [n \in 1..Len(Variants) |-> VariantRule(Variants[n])]
  \o ContainerAndTupleRules

\* The rule list with the replacement of rule 8 written without its space.
RULES_Rule8NoSpace ==
  ImportAndReferenceRules
  \o [n \in 1..Len(Variants) |-> VariantRule(Variants[n])]
  \o [n \in 1..Len(ContainerAndTupleRules) |->
        IF n = 5
        THEN << ContainerAndTupleRules[5][1],
                <<"&", "[", "(", "Expr", ",", "Expr", ")", "]">> >>
        ELSE ContainerAndTupleRules[n]]

\* Every (pattern, replacement) of fix_expression_references, in the order of
\* the code: 1-2 imports, 3 &Expression, 4-18 variants, 19 Vec, 20 Box,
\* 21 Option<Box>, 22 tuple, 23 &[(tuple)], 24 &[String, Expression].
RULES ==
  ImportAndReferenceRules
  \o [n \in 1..Len(Variants) |-> VariantRule(Variants[n])]
  \o ContainerAndTupleRules

\* One rule of the list applied to content.
ApplyRule(n, text) == re_sub(RULES[n][1], RULES[n][2], text)

\* The rules from the n-th on, in order, each on the result of the one before
\* it.  (The one-element set makes that result a value before the next rule
\* reads it; an operator argument would be computed again at every use.)
RECURSIVE ApplyFrom(_, _)
ApplyFrom(n, text) ==
  IF n > Len(RULES) THEN text
  ELSE CHOOSE r \in { ApplyFrom(n + 1, next) : next \in {ApplyRule(n, text)} } : TRUE

\* fix_expression_references(content): every rule, each on the result of the
\* one before it.
fix_expression_references(text) == ApplyFrom(1, text)

\* ------------------------------------------------------------- the files

\* len(FILES_TO_FIX): the paths main walks, FILES_TO_FIX[1..NumFiles].
NumFiles == 17

\* What a path holds on disk: no file, or a file with its text.
Missing == [exists |-> FALSE, data |-> <<>>]
File(text) == [exists |-> TRUE, data |-> text]

\* use pkg::expression::Expression;
\* fn f(x: &Expression) -> Expression { Expression::Literal(x) }
ScenarioIn ==
  <<"use", " ", "pkg", "::", "expression", "::", "Expression", ";", "\n",
    "fn", " ", "f", "(", "x", ":", " ", "&", "Expression", ")", " ", "->", " ",
    "Expression", " ", "{", " ", "Expression", "::", "Literal", "(", "x", ")",
    " ", "}">>

\* What the code makes of the scenario:
\* use pkg::expression::Expression;
\* fn f(x: &Expr) -> Expression { Expr::Literal(x) }
ScenarioOut ==
  <<"use", " ", "pkg", "::", "expression", "::", "Expression", ";", "\n",
    "fn", " ", "f", "(", "x", ":", " ", "&", "Expr", ")", " ", "->", " ",
    "Expression", " ", "{", " ", "Expr", "::", "Literal", "(", "x", ")",
    " ", "}">>

\* The texts a file of the walk may hold: the scenario, the scenario already
\* rewritten (which no rule touches), the empty file, and two short files a
\* rule rewrites.
FileTexts ==
  { ScenarioIn,
    ScenarioOut,
    <<>>,
    <<"Vec", "<", "Expression", ">">>,
    <<"&", "Expression", "::", "Literal">> }

FileStates == {Missing} \cup { File(t) : t \in FileTexts }

\* The texts a failed write can leave behind it: open(path, 'w') has truncated
\* the file, and any prefix of the new text may have reached the disk before
\* write or close raised.
Prefixes(text) == { SubSeq(text, 1, n) : n \in 0..Len(text) }

VARIABLES
  idx,               \* main: the position of the loop in FILES_TO_FIX
  pc,                \* where the run is
  disk,              \* the state on disk of the file being processed (Missing
                     \* between two calls)
  orig,              \* that file's state when process_file was called
  original_content,  \* process_file: the text read
  new_content,       \* process_file: the text transformed
  opened_w,          \* whether this call opened the file for writing
  outcome,           \* the status line of the call ("none" until it prints one)
  ret,               \* the value the call returned
  fixed_count,       \* main: the files reported fixed
  calls,             \* the paths process_file was called with, in order
  n_modified,        \* calls that ended with outcome modified
  n_changed_on_disk, \* calls after which the file differs from its original
  second,            \* the transform applied to its own result
  content            \* fix_expression_references: the text between two rules

vars == <<idx, pc, disk, orig, original_content, new_content, opened_w, outcome,
          ret, fixed_count, calls, n_modified, n_changed_on_disk, second, content>>

walkVars == <<idx, disk, orig, opened_w, outcome, ret, fixed_count, calls,
              n_modified, n_changed_on_disk>>

Init ==
  /\ idx = 1
  /\ pc = "loop"
  /\ disk = Missing
  /\ orig = Missing
  /\ original_content = <<>>
  /\ new_content = <<>>
  /\ opened_w = FALSE
  /\ outcome = "none"
  /\ ret = FALSE
  /\ fixed_count = 0
  /\ calls = <<>>
  /\ n_modified = 0
  /\ n_changed_on_disk = 0
  /\ second = <<>>
  /\ content = <<>>

\* original_content != new_content
ContentChanged_Always(a, b) == TRUE

ContentChanged(a, b) == a # b

\* main: the next path of the list; process_file is called with it.  The file
\* system is the environment's: a path is visited once, so what it holds is
\* drawn when the loop reaches it.
CallProcessFile ==
  /\ pc = "loop"
  /\ idx <= NumFiles
  /\ \E st \in FileStates : disk' = st /\ orig' = st
  /\ calls' = Append(calls, idx)
  /\ outcome' = "none"
  /\ ret' = FALSE
  /\ pc' = "exists"
  /\ UNCHANGED <<idx, original_content, new_content, opened_w, fixed_count,
                 n_modified, n_changed_on_disk, second, content>>

\* process_file: os.path.exists is false; the skip notice, return False.
FileMissing ==
  /\ pc = "exists"
  /\ ~disk.exists
  /\ outcome' = "missing"
  /\ ret' = FALSE
  /\ pc' = "ret"
  /\ UNCHANGED <<idx, disk, orig, original_content, new_content, opened_w,
                 fixed_count, calls, n_modified, n_changed_on_disk, second, content>>

FileExists ==
  /\ pc = "exists"
  /\ disk.exists
  /\ pc' = "read"
  /\ UNCHANGED <<walkVars, original_content, new_content, second, content>>

\* open(file_path, 'r') and f.read()
ReadOk ==
  /\ pc = "read"
  /\ original_content' = disk.data
  /\ pc' = "transform"
  /\ UNCHANGED <<walkVars, new_content, second, content>>

\* The same with the handler missing: the exception leaves main.
ReadFail_Propagates ==
  /\ pc = "read"
  /\ pc' = "crashed"
  /\ UNCHANGED <<walkVars, original_content, new_content, second, content>>

\* open or read raises (permission, not a file, not UTF-8): the handler prints
\* the error and returns False.
ReadFail ==
  /\ pc = "read"
  /\ outcome' = "error"
  /\ ret' = FALSE
  /\ pc' = "ret"
  /\ UNCHANGED <<idx, disk, orig, original_content, new_content, opened_w,
                 fixed_count, calls, n_modified, n_changed_on_disk, second, content>>

\* new_content = fix_expression_references(original_content)
Transform ==
  /\ pc = "transform"
  /\ new_content' = fix_expression_references(original_content)
  /\ pc' = "compare"
  /\ UNCHANGED <<walkVars, original_content, second, content>>

\* if original_content != new_content: go on to write
CompareChanged ==
  /\ pc = "compare"
  /\ ContentChanged(original_content, new_content)
  /\ pc' = "open_w"
  /\ UNCHANGED <<walkVars, original_content, new_content, second, content>>

\* else: the no-change notice, return False.
CompareSame ==
  /\ pc = "compare"
  /\ ~ContentChanged(original_content, new_content)
  /\ outcome' = "unchanged"
  /\ ret' = FALSE
  /\ pc' = "ret"
  /\ UNCHANGED <<idx, disk, orig, original_content, new_content, opened_w,
                 fixed_count, calls, n_modified, n_changed_on_disk, second, content>>

\* open(file_path, 'w') succeeds: the file is truncated.
OpenWriteOk ==
  /\ pc = "open_w"
  /\ disk' = File(<<>>)
  /\ opened_w' = TRUE
  /\ pc' = "write"
  /\ UNCHANGED <<idx, orig, original_content, new_content, outcome, ret,
                 fixed_count, calls, n_modified, n_changed_on_disk, second, content>>

\* open(file_path, 'w') raises: nothing was touched; the handler returns False.
OpenWriteFail ==
  /\ pc = "open_w"
  /\ outcome' = "error"
  /\ ret' = FALSE
  /\ pc' = "ret"
  /\ UNCHANGED <<idx, disk, orig, original_content, new_content, opened_w,
                 fixed_count, calls, n_modified, n_changed_on_disk, second, content>>

\* f.write(new_content) and the close succeed: the fixed notice, return True.
WriteOk ==
  /\ pc = "write"
  /\ disk' = File(new_content)
  /\ outcome' = "modified"
  /\ ret' = TRUE
  /\ pc' = "ret"
  /\ UNCHANGED <<idx, orig, original_content, new_content, opened_w,
                 fixed_count, calls, n_modified, n_changed_on_disk, second, content>>

\* f.write or the close raises (disk full, I/O error): some prefix of the new
\* text is on disk; the handler prints the error and returns False.
WriteFail ==
  /\ pc = "write"
  /\ \E t \in Prefixes(new_content) : disk' = File(t)
  /\ outcome' = "error"
  /\ ret' = FALSE
  /\ pc' = "ret"
  /\ UNCHANGED <<idx, orig, original_content, new_content, opened_w,
                 fixed_count, calls, n_modified, n_changed_on_disk, second, content>>

\* main: if process_file(file_path): fixed_count += 1; then the next path.  The
\* call's locals are gone and no file is being processed.
Return ==
  /\ pc = "ret"
  /\ fixed_count' = IF ret THEN fixed_count + 1 ELSE fixed_count
  /\ n_modified' = IF outcome = "modified" THEN n_modified + 1 ELSE n_modified
  /\ n_changed_on_disk' =
       IF disk # orig THEN n_changed_on_disk + 1 ELSE n_changed_on_disk
  /\ idx' = idx + 1
  /\ disk' = Missing
  /\ orig' = Missing
  /\ original_content' = <<>>
  /\ new_content' = <<>>
  /\ opened_w' = FALSE
  /\ pc' = "loop"
  /\ UNCHANGED <<outcome, ret, calls, second, content>>

\* main: the list is exhausted; the summary prints fixed_count.
Summary ==
  /\ pc = "loop"
  /\ idx > NumFiles
  /\ pc' = "done"
  /\ UNCHANGED <<walkVars, original_content, new_content, second, content>>

Next ==
  \/ CallProcessFile
  \/ FileMissing
  \/ FileExists
  \/ ReadOk
  \/ ReadFail
  \/ Transform
  \/ CompareChanged
  \/ CompareSame
  \/ OpenWriteOk
  \/ OpenWriteFail
  \/ WriteOk
  \/ WriteFail
  \/ Return
  \/ Summary

Spec == Init /\ [][Next]_vars

\* The run is one sequential program: a step that can be taken is taken.
FairSpec == Spec /\ WF_vars(Next)

\* ------------------------------------------------ the transform on its own

\* The longest input, in units.
MaxUnits == 3

\* What the inputs are built from: single tokens (the old and the new name, an
\* identifier prefix and suffix, the punctuation a match can stand next to) and
\* the pieces of the shapes that the rules look for.
Units ==
  { <<"&">>, <<"Expression">>, <<"Expr">>, <<"Sub">>, <<"Kind">>, <<" ">>,
    <<"]">>, <<"::", "Literal">>,
    <<"Box", "<", "Expression", ">">>,
    <<"Option", "<", "Box", "<", "Expression", ">", ">">>,
    <<"(", "Expression", ",">>,
    <<"Expression", ")">>,
    <<"&", "[", "(", "Expression", ",">>,
    <<"&", "[", "String", ",">>,
    <<"use", " ", "crate", "::", "expression", "::">> }

RECURSIVE Flatten(_)
Flatten(s) == IF s = <<>> THEN <<>> ELSE Head(s) \o Flatten(Tail(s))

\* Vec<Expression> Box<Expression> Option<Box<Expression>> (Expression, Expression)
ContainerScenario ==
  <<"Vec", "<", "Expression", ">", " ", "Box", "<", "Expression", ">", " ",
    "Option", "<", "Box", "<", "Expression", ">", ">", " ",
    "(", "Expression", ",", " ", "Expression", ")">>

\* Every text of at most MaxUnits of the units U.
TextsOf(U) == UNION { { Flatten(s) : s \in [1..n -> U] } : n \in 0..MaxUnits }

\* The inputs of the transform: every text of the units, and the container
\* scenario.
Inputs == TextsOf(Units) \cup {ContainerScenario}

\* The inputs the rules are applied to in any order: the units without the two
\* that no pattern starts or continues with.
OrderInputs == TextsOf(Units \ { <<"Sub">>, <<"Expr">> })

\* The variables of the walk, at rest.
WalkAtRest ==
  /\ idx = 1
  /\ disk = Missing
  /\ orig = Missing
  /\ opened_w = FALSE
  /\ outcome = "none"
  /\ ret = FALSE
  /\ fixed_count = 0
  /\ calls = <<>>
  /\ n_modified = 0
  /\ n_changed_on_disk = 0

InitT ==
  /\ WalkAtRest
  /\ pc = "t_input"
  /\ original_content \in Inputs
  /\ new_content = <<>>
  /\ second = <<>>
  /\ content = <<>>

\* new_content = fix_expression_references(original_content)
TransformOnce ==
  /\ pc = "t_input"
  /\ new_content' = fix_expression_references(original_content)
  /\ pc' = "t_once"
  /\ UNCHANGED <<walkVars, original_content, second, content>>

\* The transform again, on its own result.
TransformTwice ==
  /\ pc = "t_once"
  /\ second' = fix_expression_references(new_content)
  /\ pc' = "t_twice"
  /\ UNCHANGED <<walkVars, original_content, new_content, content>>

NextT == TransformOnce \/ TransformTwice

SpecT == InitT /\ [][NextT]_vars

\* ---------------------------------------------------- the rules in any order

InitOrder ==
  /\ WalkAtRest
  /\ pc = "o_rules"
  /\ content \in OrderInputs
  /\ original_content = content
  /\ new_content = <<>>
  /\ second = <<>>

\* Any one rule of the list applied to the text, whatever was applied before.
ApplyAnyRule ==
  /\ pc = "o_rules"
  /\ \E n \in 1..Len(RULES) : content' = ApplyRule(n, content)
  /\ UNCHANGED <<walkVars, pc, original_content, new_content, second>>

NextOrder == ApplyAnyRule

SpecOrder == InitOrder /\ [][NextOrder]_vars

\* -------------------------------------------------------------- the claims

\* The positions of text where pat matches, and how many there are.
MatchStarts(pat, text) == { i \in 1..Len(text) : MatchEnd(pat, 1, text, i) # 0 }
Occurrences(pat, text) == Cardinality(MatchStarts(pat, text))

\* What the scenario becomes according to the specification:
\* use pkg::expression::Expr;
\* fn f(x: &Expr) -> Expr { Expr::Literal(x) }
ScenarioClaimed ==
  <<"use", " ", "pkg", "::", "expression", "::", "Expr", ";", "\n",
    "fn", " ", "f", "(", "x", ":", " ", "&", "Expr", ")", " ", "->", " ",
    "Expr", " ", "{", " ", "Expr", "::", "Literal", "(", "x", ")",
    " ", "}">>

\* A call of process_file is under way, up to its return value being read.
InCall == pc \in {"exists", "read", "transform", "compare", "open_w", "write", "ret"}

\* C1, as the claim states it: a scenario file reported modified holds the text
\* in which every Expression, the import's and the return type's too, is Expr.
C1_ScenarioAsClaimed ==
  (pc = "ret" /\ orig = File(ScenarioIn) /\ outcome = "modified")
    => disk = File(ScenarioClaimed)

\* C1, amended: the transform of the scenario rewrites &Expression and
\* Expression::Literal only (the import under pkg and the bare return type stay);
\* process_file never reports the file unchanged, and when it reports it
\* modified the file holds that text and True is returned.
C1_ScenarioAsCoded ==
  (orig = File(ScenarioIn) /\ original_content = ScenarioIn)
    => /\ pc \in {"compare", "open_w", "write", "ret"} => new_content = ScenarioOut
       /\ pc = "ret" => outcome \in {"modified", "error"}
       /\ (pc = "ret" /\ outcome = "modified") => (disk = File(ScenarioOut) /\ ret)

C1_Witness ==
  /\ pc = "ret"
  /\ orig = File(ScenarioIn)
  /\ outcome = "modified"
  /\ disk = File(ScenarioOut)

\* C2: the transform applied to its own result gives that result again.
C2_Idempotent == pc = "t_twice" => second = new_content

\* An input with the un-parenthesised String tuple: its result holds the
\* rewritten &[(String, Expr)] and went through the transform a second time.
C2_Witness ==
  /\ pc = "t_twice"
  /\ new_content # original_content
  /\ MatchStarts(<<"&", "[", "(", "String", ",", " ", "Expr", ")", "]">>, new_content) # {}

\* Expression occurs in text, and only as a proper part of a longer identifier.
OnlyEmbedded(text) ==
  /\ \E i \in 1..Len(text) : text[i] = "Expression"
  /\ \A i \in 1..Len(text) :
       text[i] = "Expression" => (IsWord(text, i - 1) \/ IsWord(text, i + 1))

\* C3: a text in which Expression occurs only inside longer identifiers comes
\* out of the transform unchanged.
C3_BoundaryAnchored ==
  (pc = "t_once" /\ OnlyEmbedded(original_content)) => new_content = original_content

\* Every match of a rule's pattern in text: <<rule, position>>.
AllMatches(text) ==
  { m \in (1..Len(RULES)) \X (1..Len(text)) : MatchEnd(RULES[m[1]][1], 1, text, m[2]) # 0 }

\* text with Expression renamed to Expr inside [from, to) and nothing else changed.
RenamedWithin(text, from, to) ==
  [k \in 1..Len(text) |->
     IF k >= from /\ k < to /\ text[k] = "Expression" THEN "Expr" ELSE text[k]]

\* C7: when exactly one rule matches the input, exactly once, the output is the
\* input with Expression renamed inside the match and every other token as it was.
C7_MinimalChange ==
  (pc = "t_once" /\ Cardinality(AllMatches(original_content)) = 1)
    => LET m == CHOOSE x \in AllMatches(original_content) : TRUE
           to == MatchEnd(RULES[m[1]][1], 1, original_content, m[2])
       IN new_content = RenamedWithin(original_content, m[2], to)

\* The four container shapes of the scenario, each with what it converts to.
\* (The tuple is taken with any white space after its comma.)
ContainerShapes ==
  { << <<"Vec", "<", "Expression", ">">>, <<"Vec", "<", "Expr", ">">> >>,
    << <<"Box", "<", "Expression", ">">>, <<"Box", "<", "Expr", ">">> >>,
    << <<"Option", "<", "Box", "<", "Expression", ">", ">">>,
       <<"Option", "<", "Box", "<", "Expr", ">", ">">> >>,
    << <<"(", "Expression", ",", WS, "Expression", ")">>,
       <<"(", "Expr", ",", " ", "Expr", ")">> >> }

\* C9: after one pass none of the four shapes is left, and each of them has
\* become its Expr form: the output holds as many of the new form as the input
\* held of the new and the old together.
C9_ContainersConverted ==
  pc = "t_once" =>
    \A sh \in ContainerShapes :
      /\ Occurrences(sh[1], new_content) = 0
      /\ Occurrences(sh[2], new_content)
           = Occurrences(sh[2], original_content) + Occurrences(sh[1], original_content)

C9_Witness ==
  /\ pc = "t_once"
  /\ original_content = ContainerScenario
  /\ new_content =
       <<"Vec", "<", "Expr", ">", " ", "Box", "<", "Expr", ">", " ",
         "Option", "<", "Box", "<", "Expr", ">", ">", " ",
         "(", "Expr", ",", " ", "Expr", ")">>

\* The rules that change text.
Changing(text) == { n \in 1..Len(RULES) : ApplyRule(n, text) # text }

\* C8: on every text that any sequence of rules makes of an input, every two
\* rules give the same text in either order; so two orders of the rule list,
\* which differ by exchanges of neighbours, end in the same text.  (Two rules
\* that both leave the text as it is commute on it; the others are compared.)
C8_OrderIndependent ==
  \A i \in Changing(content) : \A after_i \in {ApplyRule(i, content)} :
    \A j \in 1..Len(RULES) :
      ApplyRule(i, ApplyRule(j, content)) = ApplyRule(j, after_i)

\* An input on which the tuple rule and the &[(tuple)] rule both match, the one
\* inside the other, after one of them was applied.
C8_Witness ==
  /\ original_content = <<"&", "[", "(", "Expression", ",", "Expression", ")", "]">>
  /\ {22, 23} \subseteq Changing(original_content)
  /\ content = <<"&", "[", "(", "Expr", ",", " ", "Expr", ")", "]">>

\* C4: process_file is called with the paths in list order, each once, whatever
\* the calls before it ended with, and the run reaches the summary with every
\* path visited.
C4_EveryPathOnce ==
  /\ [](/\ calls = [i \in 1..Len(calls) |-> i]
        /\ Len(calls) = (IF InCall THEN idx ELSE idx - 1)
        /\ pc = "done" => Len(calls) = NumFiles)
  /\ <>(pc = "done")

\* The summary is reached by a run in which a write failed, a file was fixed and
\* the last path was missing.
C4_Witness ==
  /\ pc = "done"
  /\ outcome = "missing"
  /\ fixed_count > 0
  /\ n_changed_on_disk > fixed_count

\* The file being processed exists and the transform leaves its text as it is.
NoOpFile == orig.exists /\ fix_expression_references(orig.data) = orig.data

\* C5: during and after a call for a file the transform leaves unchanged, the
\* file has not been opened for writing, still holds its text, and the call,
\* unless the read failed, reports it unchanged and returns False.  (Stated
\* contrapositively.)
C5_NoWriteOnNoOp ==
  (/\ InCall
   /\ \/ opened_w
      \/ disk # orig
      \/ pc \in {"open_w", "write"}
      \/ (pc = "ret" /\ outcome # "error" /\ ~(outcome = "unchanged" /\ ~ret)))
    => ~NoOpFile

C5_Witness ==
  /\ pc = "ret"
  /\ orig = File(ScenarioOut)
  /\ outcome = "unchanged"
  /\ ~opened_w
  /\ ~ret

\* C6: fixed_count is the number of calls that ended modified, and that is the
\* number of files whose content on disk the run changed.
C6_CountIsFilesChanged ==
  /\ fixed_count = n_modified
  /\ (pc \in {"loop", "done"} => fixed_count = n_changed_on_disk)

\* C10: when process_file returns, the file is as it was or holds the transform
\* of what it held; it is as it was whenever False is returned.
C10_ContentPreserved ==
  pc = "ret" =>
    /\ disk = orig \/ disk = File(fix_expression_references(orig.data))
    /\ ~ret => disk = orig

====
